---- MODULE Spec2Model ----
(***************************************************************************)
(* Model of the MealPlanning persistence layer (src/database.py,           *)
(* class MealDatabase) and of the shopping-list aggregation it serves.     *)
(*                                                                         *)
(* The four relations of setup_database are the state.  Every public       *)
(* method of MealDatabase is one action; a method is modelled statement by *)
(* statement, with the commits where the code has them: an exception       *)
(* leaves the `with self.engine.connect()` block, the connection is        *)
(* closed and whatever was executed since the last conn.commit() is rolled *)
(* back, while everything committed before stays.                          *)
(*                                                                         *)
(* Amounts are DECIMAL(10,2) values, represented as integers counting      *)
(* hundredths (2.50 is 250).  Strings are TLA+ strings; where the code     *)
(* compares or transforms them (sort_values, str.capitalize) the model     *)
(* works on their code points, given by CodePoints.                        *)
(*                                                                         *)
(* Next to the calls made one after the other there are the two handlers   *)
(* of the recipes page that call the database (the details of a recipe,    *)
(* the reset button), the writing calls taken statement by statement on    *)
(* connections of their own, and format_amount of src/format.py.           *)
(***************************************************************************)
EXTENDS Integers, Sequences, FiniteSets, Bags, TLC

VARIABLES
    recipes,                 \* table recipes: set of rows [id, name, meal_type, preparation]
    recipes_id_seq,          \* next value of the SERIAL sequence of recipes.id
    ingredients,             \* table ingredients: bag of rows [recipe_id, name, amount, unit, category]
    selected_recipes,        \* table selected_recipes: set of recipe_id (primary key)
    additional_ingredients,  \* table additional_ingredients: bag of rows [name, amount, unit]
    shopping_list,           \* DataFrame returned by the latest call, when it was get_shopping_list
    last,                    \* the latest call: [op, status], and the arguments
                             \* [recipe_id, ingredients] of edit_recipe and delete_recipe
    recipe_details,          \* what the latest get_recipe_details returned
    conn,                    \* per connection: the call it is executing, the
                             \* statement it is at and its uncommitted work
    formatted                \* a call of format_amount: [amount, type, text]

vars == <<recipes, recipes_id_seq, ingredients, selected_recipes,
          additional_ingredients, shopping_list, last,
          recipe_details, conn, formatted>>

(* What the calls of MealDatabase made one after the other leave alone.    *)
others == <<recipe_details, conn, formatted>>

tables == <<recipes, recipes_id_seq, ingredients, selected_recipes,
            additional_ingredients>>

-----------------------------------------------------------------------------
(* Bounds of the model.                                                    *)

MaxRecipeId == 2      \* values the SERIAL sequence of recipes.id hands out
MaxAdditional == 2    \* rows in additional_ingredients
MaxAmount == 250      \* largest amount format_amount is called with, in hundredths

-----------------------------------------------------------------------------
(* Vocabularies and column widths.                                         *)

MEAL_TYPES == <<"Frühstück", "Mittagessen", "Abendessen", "Snack", "Backen">>

UNITS == <<"g", "ml", "EL", "TL", "Stk">>

CATEGORIES ==
    << "Obst & Gemüse",
       "Fleisch & Fisch",
       "Aufschnitt & Aufstrich",
       "Milchprodukte & Eier",
       "Brot & Backwaren",
       "Müsli & Cerealien",
       "Konserven & Öle",
       "Nudeln & Reis",
       "Tiefkühl",
       "Sonstiges" >>

RecipeNameWidth == 100        \* recipes.name VARCHAR(100)
MealTypeWidth == 25           \* recipes.meal_type VARCHAR(25)
IngredientNameWidth == 100    \* ingredients.name VARCHAR(100)
UnitWidth == 10               \* ingredients.unit VARCHAR(10)
CategoryWidth == 50           \* ingredients.category VARCHAR(50)
AmountIntegerLimit == 100000000  \* DECIMAL(10,2): at most 8 digits before the point
Scale == 100                  \* DECIMAL(10,2): hundredths in one unit

(* Code points of the strings the model sorts or capitalises.              *)
CodePoints ==
    "Obst & Gemüse" :> <<79, 98, 115, 116, 32, 38, 32, 71, 101, 109, 252, 115, 101>> @@
    "Fleisch & Fisch" :> <<70, 108, 101, 105, 115, 99, 104, 32, 38, 32, 70, 105, 115, 99, 104>> @@
    "Aufschnitt & Aufstrich" :> <<65, 117, 102, 115, 99, 104, 110, 105, 116, 116, 32, 38, 32, 65, 117, 102, 115, 116, 114, 105, 99, 104>> @@
    "Milchprodukte & Eier" :> <<77, 105, 108, 99, 104, 112, 114, 111, 100, 117, 107, 116, 101, 32, 38, 32, 69, 105, 101, 114>> @@
    "Brot & Backwaren" :> <<66, 114, 111, 116, 32, 38, 32, 66, 97, 99, 107, 119, 97, 114, 101, 110>> @@
    "Müsli & Cerealien" :> <<77, 252, 115, 108, 105, 32, 38, 32, 67, 101, 114, 101, 97, 108, 105, 101, 110>> @@
    "Konserven & Öle" :> <<75, 111, 110, 115, 101, 114, 118, 101, 110, 32, 38, 32, 214, 108, 101>> @@
    "Nudeln & Reis" :> <<78, 117, 100, 101, 108, 110, 32, 38, 32, 82, 101, 105, 115>> @@
    "Tiefkühl" :> <<84, 105, 101, 102, 107, 252, 104, 108>> @@
    "Sonstiges" :> <<83, 111, 110, 115, 116, 105, 103, 101, 115>> @@
    "Milch" :> <<77, 105, 108, 99, 104>> @@
    "milch" :> <<109, 105, 108, 99, 104>> @@
    "Apfel" :> <<65, 112, 102, 101, 108>> @@
    "apfel" :> <<97, 112, 102, 101, 108>> @@
    "Erbsen" :> <<69, 114, 98, 115, 101, 110>>

-----------------------------------------------------------------------------
(* Inputs of the calls.                                                    *)

(* (meal_type, name, preparation) of add_recipe and edit_recipe.           *)
RecipeInputs ==
    { [meal_type |-> "Frühstück", name |-> "Pancakes", preparation |-> "Teig anrühren"],
      [meal_type |-> "Snack",     name |-> "Erbsensuppe", preparation |-> "Kochen"] }

(* Ingredient tuples (name, amount, unit, category) and the lists of them  *)
(* passed to add_recipe and edit_recipe.  Apfel has a unit wider than the  *)
(* column.                                                                 *)
Milch == <<"Milch", 100, "Stk", "Sonstiges">>

Erbsen == <<"Erbsen", 250, "g", "Tiefkühl">>

Apfel == <<"Apfel", 100, "Messerspitze", "Obst & Gemüse">>

IngredientLists ==
    { << >>,
      <<Milch>>,
      <<Erbsen, Milch>>,
      <<Milch, Apfel>> }

RecipeIds == 1..MaxRecipeId

(* Id lists passed to update_selected_recipes: none, one or two ids, the   *)
(* two possibly equal.                                                     *)
IdLists ==
    {<< >>} \cup {<<a>> : a \in RecipeIds} \cup {<<a, b>> : a, b \in RecipeIds}

(* Arguments (name, amount, unit) of add_additional_ingredient.            *)
AdditionalInputs ==
    { <<"milch", 100, "Stk">>,
      <<"apfel", 200, "Stk">> }

-----------------------------------------------------------------------------
(* Strings.                                                                *)

(* Python's str comparison, which pandas sort_values uses on an object     *)
(* column: lexicographic on code points.                                   *)
SeqLess(s, t) ==
    \E k \in 1..Len(t) :
        /\ k <= Len(s) + 1
        /\ \A j \in 1..(k - 1) : s[j] = t[j]
        /\ (k > Len(s) \/ s[k] < t[k])

StrLess(a, b) == SeqLess(CodePoints[a], CodePoints[b])

StrLeq(a, b) == a = b \/ StrLess(a, b)

Upper(c) == IF (c >= 97 /\ c <= 122) \/ (c >= 224 /\ c <= 254 /\ c # 247)
            THEN c - 32 ELSE c

Lower(c) == IF (c >= 65 /\ c <= 90) \/ (c >= 192 /\ c <= 222 /\ c # 215)
            THEN c + 32 ELSE c

(* str.capitalize(): first character upper case, the rest lower case.      *)
capitalize(name) ==
    LET cp == CodePoints[name]
        out == [i \in 1..Len(cp) |-> IF i = 1 THEN Upper(cp[i]) ELSE Lower(cp[i])]
    IN CHOOSE t \in DOMAIN CodePoints : CodePoints[t] = out

-----------------------------------------------------------------------------
(* Rows and constraints of the schema (setup_database).                    *)

(* recipes: name VARCHAR(100) NOT NULL, meal_type VARCHAR(25).             *)
RecipeRowFits(row) ==
    /\ Len(row.name) <= RecipeNameWidth
    /\ Len(row.meal_type) <= MealTypeWidth

(* ingredients: name VARCHAR(100), amount DECIMAL(10,2), unit VARCHAR(10), *)
(* category VARCHAR(50).                                                   *)
IngredientRowFits(row) ==
    /\ Len(row.name) <= IngredientNameWidth
    /\ row.amount \div Scale < AmountIntegerLimit
    /\ Len(row.unit) <= UnitWidth
    /\ Len(row.category) <= CategoryWidth

(* The row an INSERT INTO ingredients builds from one ingredient tuple.    *)
IngredientRow(recipe_id, ingredient) ==
    [recipe_id |-> recipe_id,
     name |-> ingredient[1],
     amount |-> ingredient[2],
     unit |-> ingredient[3],
     category |-> ingredient[4]]

RecipeIdsOf(rows) == {r.id : r \in rows}

(* SUM(amount) over the rows S of a bag, each counted as often as it      *)
(* occurs.                                                                 *)
RECURSIVE SumAmount(_, _)
SumAmount(S, bag) ==
    IF S = {} THEN 0
    ELSE LET r == CHOOSE x \in S : TRUE
         IN r.amount * CopiesIn(r, bag) + SumAmount(S \ {r}, bag)

(* The SQL row count over the rows S of a bag.                             *)
RECURSIVE CountRows(_, _)
CountRows(S, bag) ==
    IF S = {} THEN 0
    ELSE LET r == CHOOSE x \in S : TRUE
         IN CopiesIn(r, bag) + CountRows(S \ {r}, bag)

(* DELETE FROM ingredients WHERE recipe_id = :recipe_id: the rows left.     *)
DeleteIngredientsOf(bag, recipe_id) ==
    LET S == {r \in BagToSet(bag) : r.recipe_id # recipe_id}
    IN [r \in S |-> bag[r]]

(* The uncommitted INSERTs of one transaction into ingredients, executed   *)
(* in list order.  Each checks the column types and the foreign key        *)
(* recipe_id REFERENCES recipes(id); the first failing statement raises    *)
(* and ends the loop.                                                      *)
RECURSIVE InsertIngredients(_, _, _, _)
InsertIngredients(recipe_id, ingredient_list, recipe_rows, pending) ==
    IF ingredient_list = << >> THEN [status |-> "ok", rows |-> pending]
    ELSE LET row == IngredientRow(recipe_id, Head(ingredient_list))
         IN IF ~IngredientRowFits(row)
            THEN [status |-> "DataError", rows |-> pending]
            ELSE IF recipe_id \notin RecipeIdsOf(recipe_rows)
            THEN [status |-> "IntegrityError", rows |-> pending]
            ELSE InsertIngredients(recipe_id, Tail(ingredient_list), recipe_rows,
                                   pending (+) SetToBag({row}))

(* The INSERTs into a selected_recipes table that has no foreign key to    *)
(* recipes.                                                                *)
RECURSIVE InsertSelectedNoForeignKey(_, _, _)
InsertSelectedNoForeignKey(recipe_ids, recipe_rows, pending) ==
    IF recipe_ids = << >> THEN [status |-> "ok", rows |-> pending]
    ELSE LET id == Head(recipe_ids)
         IN IF id \in pending
            THEN [status |-> "IntegrityError", rows |-> pending]
            ELSE InsertSelectedNoForeignKey(Tail(recipe_ids), recipe_rows,
                                            pending \cup {id})

(* The uncommitted INSERTs of one executemany into selected_recipes.  Each *)
(* checks the primary key on recipe_id and the foreign key recipe_id       *)
(* REFERENCES recipes(id).                                                 *)
RECURSIVE InsertSelected(_, _, _)
InsertSelected(recipe_ids, recipe_rows, pending) ==
    IF recipe_ids = << >> THEN [status |-> "ok", rows |-> pending]
    ELSE LET id == Head(recipe_ids)
         IN IF id \in pending \/ id \notin RecipeIdsOf(recipe_rows)
            THEN [status |-> "IntegrityError", rows |-> pending]
            ELSE InsertSelected(Tail(recipe_ids), recipe_rows, pending \cup {id})

-----------------------------------------------------------------------------
(* The methods of MealDatabase.  Each yields the outcome of the call on    *)
(* the current tables: the status (ok, or the exception raised) and the    *)
(* committed contents of the tables it writes.                             *)

(* update_selected_recipes with every statement committed on its own.      *)
update_selected_recipes_autocommit(recipe_ids) ==
    LET tx == InsertSelected(recipe_ids, recipes, {})
    IN [status |-> tx.status, selected_recipes |-> tx.rows]

(* update_selected_recipes without the DELETE of the old selection.        *)
update_selected_recipes_append(recipe_ids) ==
    LET tx == InsertSelected(recipe_ids, recipes, selected_recipes)
    IN IF tx.status = "ok"
       THEN [status |-> "ok", selected_recipes |-> tx.rows]
       ELSE [status |-> tx.status, selected_recipes |-> selected_recipes]

(* DELETE and the INSERTs run in one transaction that is committed at the  *)
(* end; a failing INSERT rolls the DELETE back with it.                    *)
update_selected_recipes(recipe_ids) ==
    LET tx == InsertSelected(recipe_ids, recipes, {})
    IN IF tx.status = "ok"
       THEN [status |-> "ok", selected_recipes |-> tx.rows]
       ELSE [status |-> tx.status, selected_recipes |-> selected_recipes]

clear_additional_ingredients ==
    [status |-> "ok", additional_ingredients |-> EmptyBag]

add_additional_ingredient(name, amount, unit) ==
    [status |-> "ok",
     additional_ingredients |->
        additional_ingredients (+)
        SetToBag({[name |-> capitalize(name), amount |-> amount, unit |-> unit]})]

(* get_recipe_details has not been called.                                 *)
NoDetails == [recipe |-> {}, ingredients |-> EmptyBag]

(* SELECT * FROM ingredients WHERE recipe_id = :recipe_id.                 *)
IngredientsOf(bag, recipe_id) ==
    LET S == {r \in BagToSet(bag) : r.recipe_id = recipe_id}
    IN [r \in S |-> bag[r]]

(* get_recipe_details: the first record of the rows of recipes with the    *)
(* id, and the ingredient rows of the id.  Indexing the empty list of      *)
(* records with [0] raises IndexError.  The recipe is given as the set of  *)
(* that one row.                                                           *)
get_recipe_details(recipe_id) ==
    LET rows == {r \in recipes : r.id = recipe_id}
    IN IF rows = {}
       THEN [status |-> "IndexError", recipe |-> {}, ingredients |-> EmptyBag]
       ELSE [status |-> "ok",
             recipe |-> rows,
             ingredients |-> IngredientsOf(ingredients, recipe_id)]

(* show_recipe_details (src/app.py): what the page ends with.  An          *)
(* exception of get_recipe_details is not caught; `recipe is None` is a    *)
(* result without recipe.                                                  *)
show_recipe_details(recipe_id) ==
    LET out == get_recipe_details(recipe_id)
    IN IF out.status # "ok"
       THEN [status |-> out.status, recipe_details |-> NoDetails]
       ELSE IF out.recipe = {}
       THEN [status |-> "Rezept nicht gefunden!", recipe_details |-> NoDetails]
       ELSE [status |-> "ok",
             recipe_details |-> [recipe |-> out.recipe,
                                 ingredients |-> out.ingredients]]

(* The recipes page (src/app.py, show_recipes_page).                       *)

(* The choices of the meal-type selectbox.                                 *)
MealFilters == {"Alle"} \cup {MEAL_TYPES[i] : i \in DOMAIN MEAL_TYPES}

(* The recipes the page lists: those left by the filter, under the header  *)
(* of their meal type.                                                     *)
displayed(meal_type) ==
    {r \in recipes : /\ \E i \in DOMAIN MEAL_TYPES : MEAL_TYPES[i] = r.meal_type
                     /\ meal_type = "Alle" \/ r.meal_type = meal_type}

(* The order the page walks the recipes in: the meal types in the order of *)
(* MEAL_TYPES, the recipes of one meal type sorted by name.                *)
PageRowLeq(x, y) ==
    LET Index(m) == CHOOSE i \in DOMAIN MEAL_TYPES : MEAL_TYPES[i] = m
    IN \/ Index(x.meal_type) < Index(y.meal_type)
       \/ x.meal_type = y.meal_type /\ StrLeq(x.name, y.name)

(* The lists selected_recipe_ids the loop can build from the checked rows; *)
(* recipes of one meal type and one name come in any order.                *)
RECURSIVE selected_recipe_ids(_)
selected_recipe_ids(rows) ==
    IF rows = {} THEN {<< >>}
    ELSE UNION { {<<r.id>> \o ids : ids \in selected_recipe_ids(rows \ {r})}
                 : r \in {x \in rows : \A y \in rows : PageRowLeq(x, y)} }

(* The page with the selection written on every render.                    *)
show_recipes_page_always_writes(meal_type, checked) ==
    { update_selected_recipes(ids)
      : ids \in selected_recipe_ids({r \in displayed(meal_type) : r.id \in checked}) }

(* The outcomes of one render with the boxes of `checked` checked: the     *)
(* selection is written when the list of checked ids is not empty.         *)
show_recipes_page(meal_type, checked) ==
    { IF Len(ids) > 0
      THEN update_selected_recipes(ids)
      ELSE [status |-> "ok", selected_recipes |-> selected_recipes]
      : ids \in selected_recipe_ids({r \in displayed(meal_type) : r.id \in checked}) }

(* The possible outcomes of add_recipe.  The recipe row is committed       *)
(* before the id is looked up by name; the lookup takes the first row of   *)
(* an unordered result, which is any row with that name.  The ingredient   *)
(* INSERTs form a second transaction.                                      *)
add_recipe(meal_type, name, preparation, ingredient_list) ==
    LET row == [id |-> recipes_id_seq, name |-> name, meal_type |-> meal_type,
                preparation |-> preparation]
    IN IF ~RecipeRowFits(row)
       THEN {[status |-> "DataError", recipe_id |-> 0, recipes |-> recipes,
              ingredients |-> ingredients]}
       ELSE LET committed == recipes \cup {row}
            IN { LET tx == InsertIngredients(recipe_id, ingredient_list, committed, EmptyBag)
                 IN [status |-> tx.status,
                     recipe_id |-> recipe_id,
                     recipes |-> committed,
                     ingredients |-> IF tx.status = "ok"
                                     THEN ingredients (+) tx.rows
                                     ELSE ingredients]
                 : recipe_id \in {r.id : r \in {x \in committed : x.name = name}} }

(* edit_recipe without the DELETE of the old ingredient rows.              *)
edit_recipe_merge(recipe_id, meal_type, name, preparation, ingredient_list) ==
    LET Updated(r) == [id |-> r.id, name |-> name, meal_type |-> meal_type,
                       preparation |-> preparation]
        target == {r \in recipes : r.id = recipe_id}
    IN IF \E r \in target : ~RecipeRowFits(Updated(r))
       THEN [status |-> "DataError", recipes |-> recipes, ingredients |-> ingredients]
       ELSE LET updated == (recipes \ target) \cup {Updated(r) : r \in target}
                tx == InsertIngredients(recipe_id, ingredient_list, updated, EmptyBag)
            IN [status |-> tx.status,
                recipes |-> updated,
                ingredients |-> IF tx.status = "ok" THEN ingredients (+) tx.rows
                                ELSE ingredients]

(* The outcome of edit_recipe: UPDATE, commit, DELETE, commit, INSERTs,    *)
(* commit.  An UPDATE that matches no row assigns nothing and succeeds.    *)
edit_recipe(recipe_id, meal_type, name, preparation, ingredient_list) ==
    LET Updated(r) == [id |-> r.id, name |-> name, meal_type |-> meal_type,
                       preparation |-> preparation]
        target == {r \in recipes : r.id = recipe_id}
    IN IF \E r \in target : ~RecipeRowFits(Updated(r))
       THEN [status |-> "DataError", recipes |-> recipes, ingredients |-> ingredients]
       ELSE LET updated == (recipes \ target) \cup {Updated(r) : r \in target}
                deleted == DeleteIngredientsOf(ingredients, recipe_id)
                tx == InsertIngredients(recipe_id, ingredient_list, updated, EmptyBag)
            IN [status |-> tx.status,
                recipes |-> updated,
                ingredients |-> IF tx.status = "ok" THEN deleted (+) tx.rows
                                ELSE deleted]

(* delete_recipe on a schema whose selected_recipes foreign key does not   *)
(* cascade.                                                                *)
delete_recipe_no_cascade(recipe_id) ==
    [status |-> "ok",
     recipes |-> {r \in recipes : r.id # recipe_id},
     ingredients |-> DeleteIngredientsOf(ingredients, recipe_id),
     selected_recipes |-> selected_recipes]

(* delete_recipe that raises when no recipe has the id.                    *)
delete_recipe_strict(recipe_id) ==
    LET out == delete_recipe_no_cascade(recipe_id)
    IN [status |-> IF recipe_id \in RecipeIdsOf(recipes) THEN "ok" ELSE "NotFound",
        recipes |-> out.recipes,
        ingredients |-> out.ingredients,
        selected_recipes |-> out.selected_recipes \ {recipe_id}]

(* DELETE FROM recipes cascades to ingredients and selected_recipes (ON     *)
(* DELETE CASCADE on both foreign keys); the second DELETE removes the     *)
(* ingredient rows of that id again.                                       *)
delete_recipe(recipe_id) ==
    LET cascaded == DeleteIngredientsOf(ingredients, recipe_id)
    IN [status |-> "ok",
        recipes |-> {r \in recipes : r.id # recipe_id},
        ingredients |-> DeleteIngredientsOf(cascaded, recipe_id),
        selected_recipes |-> selected_recipes \ {recipe_id}]

-----------------------------------------------------------------------------
(* get_shopping_list.                                                      *)

(* The first SELECT without the join: every ingredient row counts.         *)
AllIngredientTotals ==
    LET joined == BagToSet(ingredients)
        Group(r) == {x \in joined : /\ x.name = r.name
                                    /\ x.unit = r.unit
                                    /\ x.category = r.category}
    IN {[name |-> r.name,
         category |-> r.category,
         total_amount |-> SumAmount(Group(r), ingredients),
         unit |-> r.unit] : r \in joined}

(* First SELECT: ingredients joined to selected_recipes on recipe_id,      *)
(* grouped by (name, unit, category), SUM(amount) per group.               *)
SelectedIngredientTotals ==
    LET joined == {r \in BagToSet(ingredients) : r.recipe_id \in selected_recipes}
        Group(r) == {x \in joined : /\ x.name = r.name
                                    /\ x.unit = r.unit
                                    /\ x.category = r.category}
    IN {[name |-> r.name,
         category |-> r.category,
         total_amount |-> SumAmount(Group(r), ingredients),
         unit |-> r.unit] : r \in joined}

(* The second SELECT with SUM(a.amount) in place of the row count.         *)
AdditionalAmountTotals ==
    LET rows == BagToSet(additional_ingredients)
        Group(r) == {x \in rows : x.name = r.name}
    IN {[name |-> r.name,
         category |-> "Sonstiges",
         total_amount |-> SumAmount(Group(r), additional_ingredients),
         unit |-> "Stk"] : r \in rows}

(* Second SELECT: additional_ingredients grouped by name, the row count of *)
(* the group as total_amount, with the literals 'Sonstiges' and 'Stk'.     *)
AdditionalTotals ==
    LET rows == BagToSet(additional_ingredients)
        Group(r) == {x \in rows : x.name = r.name}
    IN {[name |-> r.name,
         category |-> "Sonstiges",
         total_amount |-> Scale * CountRows(Group(r), additional_ingredients),
         unit |-> "Stk"] : r \in rows}

(* UNION of the two SELECTs: the distinct rows of both.                    *)
UnionSelect == SelectedIngredientTotals \cup AdditionalTotals

(* sort_values with the categories compared by their position in          *)
(* CATEGORIES.                                                             *)
RowLeqByVocabulary(x, y) ==
    LET Index(c) == CHOOSE i \in DOMAIN CATEGORIES : CATEGORIES[i] = c
    IN \/ Index(x.category) < Index(y.category)
       \/ x.category = y.category /\ StrLeq(x.name, y.name)

(* Order of sort_values(["category", "name"]): category first, name within *)
(* equal categories, both compared as Python strings.                      *)
RowLeq(x, y) ==
    \/ StrLess(x.category, y.category)
    \/ x.category = y.category /\ StrLeq(x.name, y.name)

(* The frames sort_values can return for a set of rows: rows that compare  *)
(* equal on both keys come in any order.                                   *)
RECURSIVE sort_values(_)
sort_values(rows) ==
    IF rows = {} THEN {<< >>}
    ELSE UNION { {<<r>> \o rest : rest \in sort_values(rows \ {r})}
                 : r \in {x \in rows : \A y \in rows : RowLeq(x, y)} }

get_shopping_list == sort_values(UnionSelect)

-----------------------------------------------------------------------------
(* format_amount (src/format.py).  A text is the sequence of its           *)
(* characters.                                                             *)

Digit == <<"0", "1", "2", "3", "4", "5", "6", "7", "8", "9">>

(* str(n) of a non-negative int.                                           *)
RECURSIVE str_int(_)
str_int(n) ==
    IF n < 10 THEN <<Digit[n + 1]>>
    ELSE str_int(n \div 10) \o <<Digit[(n % 10) + 1]>>

(* The types of amount the branches of format_amount tell apart.           *)
NumberTypes == {"float", "Decimal"}

(* 2^n modulo 25.                                                          *)
RECURSIVE Pow2Mod25(_)
Pow2Mod25(n) == IF n = 0 THEN 1 ELSE (2 * Pow2Mod25(n - 1)) % 25

(* For amount > 0 hundredths: 50 - e, where 2^e is the largest power of    *)
(* two not above amount / 100.  The float nearest to amount / 100 is       *)
(* m * 2^(e - 52) with m the integer nearest to                            *)
(* amount * 2^(52 - e) / 100 = amount * 2^(50 - e) / 25.                   *)
RECURSIVE MantissaShift(_, _, _)
MantissaShift(amount, power, shift) ==
    IF amount < 100
    THEN IF amount * power >= 100 THEN shift
         ELSE MantissaShift(amount, 2 * power, shift + 1)
    ELSE IF 200 * power > amount THEN shift
         ELSE MantissaShift(amount, 2 * power, shift - 1)

(* Where the float nearest to amount / 100 lies: -1 below amount / 100, 0  *)
(* on it, 1 above it, from the remainder of the division by 25 that        *)
(* rounding to the 53 bit mantissa drops.                                  *)
FloatError(amount) ==
    LET r == ((amount % 25) * Pow2Mod25(MantissaShift(amount, 1, 50))) % 25
    IN IF r = 0 THEN 0 ELSE IF r <= 12 THEN -1 ELSE 1

(* f"{amount:.1f}" of the float nearest to amount / 100: the exact binary  *)
(* value rounded to tenths, a tie to the even tenth.                       *)
format_1f(amount) ==
    LET q == amount \div 10
        d == amount % 10
        tenths == IF d < 5 THEN q
                  ELSE IF d > 5 THEN q + 1
                  ELSE IF FloatError(amount) < 0 THEN q
                  ELSE IF FloatError(amount) > 0 THEN q + 1
                  ELSE IF q % 2 = 0 THEN q ELSE q + 1
    IN str_int(tenths \div 10) \o <<".">> \o <<Digit[(tenths % 10) + 1]>>

(* str(amount) of a Decimal with two decimal places, as a DECIMAL(10,2)    *)
(* column yields it.                                                       *)
str_Decimal(amount) ==
    str_int(amount \div Scale) \o <<".">>
        \o <<Digit[((amount % Scale) \div 10) + 1], Digit[(amount % 10) + 1]>>

(* format_amount(amount) for amount hundredths given as a float or as a    *)
(* Decimal.                                                                *)
format_amount(amount, type) ==
    IF type = "float"
    THEN IF amount % Scale = 0 THEN str_int(amount \div Scale)
         ELSE format_1f(amount)
    ELSE IF amount % Scale = 0 THEN str_int(amount \div Scale)
         ELSE str_Decimal(amount)

-----------------------------------------------------------------------------
(* The state machine.                                                      *)

NoCall == [op |-> "none", status |-> "ok", recipe_id |-> 0, ingredients |-> << >>]

(* The connections of the pool, and a connection that is checked in.       *)
Connections == {1, 2}

Idle == [pc |-> "idle"]

(* format_amount has not been called.                                      *)
NoFormat == [amount |-> 0, type |-> "float", text |-> << >>]

(* The database after setup_database on an empty server, every connection  *)
(* in the pool.                                                            *)
InitDatabase ==
    /\ recipes = {}
    /\ recipes_id_seq = 1
    /\ ingredients = EmptyBag
    /\ selected_recipes = {}
    /\ additional_ingredients = EmptyBag
    /\ shopping_list = << >>
    /\ last = NoCall
    /\ recipe_details = NoDetails
    /\ conn = [c \in Connections |-> Idle]

Init ==
    /\ InitDatabase
    /\ formatted = NoFormat

UpdateSelectedRecipes(recipe_ids) ==
    LET out == update_selected_recipes(recipe_ids)
    IN /\ selected_recipes' = out.selected_recipes
       /\ last' = [op |-> "update_selected_recipes", status |-> out.status,
                   recipe_id |-> 0, ingredients |-> << >>]
       /\ shopping_list' = << >>
       /\ UNCHANGED <<recipes, recipes_id_seq, ingredients, additional_ingredients>>
       /\ UNCHANGED others

ClearAdditionalIngredients ==
    LET out == clear_additional_ingredients
    IN /\ additional_ingredients' = out.additional_ingredients
       /\ last' = [op |-> "clear_additional_ingredients", status |-> out.status,
                   recipe_id |-> 0, ingredients |-> << >>]
       /\ shopping_list' = << >>
       /\ UNCHANGED <<recipes, recipes_id_seq, ingredients, selected_recipes>>
       /\ UNCHANGED others

GetShoppingList ==
    \E frame \in get_shopping_list :
        /\ shopping_list' = frame
        /\ last' = [op |-> "get_shopping_list", status |-> "ok",
                   recipe_id |-> 0, ingredients |-> << >>]
        /\ UNCHANGED tables
        /\ UNCHANGED others

AddAdditionalIngredient(name, amount, unit) ==
    /\ BagCardinality(additional_ingredients) < MaxAdditional
    /\ LET out == add_additional_ingredient(name, amount, unit)
       IN /\ additional_ingredients' = out.additional_ingredients
          /\ last' = [op |-> "add_additional_ingredient", status |-> out.status,
                   recipe_id |-> 0, ingredients |-> << >>]
          /\ shopping_list' = << >>
          /\ UNCHANGED <<recipes, recipes_id_seq, ingredients, selected_recipes>>
          /\ UNCHANGED others

(* The sequence of recipes.id advances with every INSERT, also with one    *)
(* that fails.                                                             *)
AddRecipe(r, ingredient_list) ==
    /\ recipes_id_seq <= MaxRecipeId
    /\ \E out \in add_recipe(r.meal_type, r.name, r.preparation, ingredient_list) :
          /\ recipes' = out.recipes
          /\ recipes_id_seq' = recipes_id_seq + 1
          /\ ingredients' = out.ingredients
          /\ last' = [op |-> "add_recipe", status |-> out.status,
                   recipe_id |-> 0, ingredients |-> << >>]
          /\ shopping_list' = << >>
          /\ UNCHANGED <<selected_recipes, additional_ingredients>>
          /\ UNCHANGED others

EditRecipe(recipe_id, r, ingredient_list) ==
    LET out == edit_recipe(recipe_id, r.meal_type, r.name, r.preparation, ingredient_list)
    IN /\ recipes' = out.recipes
       /\ ingredients' = out.ingredients
       /\ last' = [op |-> "edit_recipe", status |-> out.status,
                   recipe_id |-> recipe_id, ingredients |-> ingredient_list]
       /\ shopping_list' = << >>
       /\ UNCHANGED <<recipes_id_seq, selected_recipes, additional_ingredients>>
       /\ UNCHANGED others

DeleteRecipe(recipe_id) ==
    LET out == delete_recipe(recipe_id)
    IN /\ recipes' = out.recipes
       /\ ingredients' = out.ingredients
       /\ selected_recipes' = out.selected_recipes
       /\ last' = [op |-> "delete_recipe", status |-> out.status,
                   recipe_id |-> recipe_id, ingredients |-> << >>]
       /\ shopping_list' = << >>
       /\ UNCHANGED <<recipes_id_seq, additional_ingredients>>
       /\ UNCHANGED others

(* The details of a recipe, opened from the recipes page.                  *)
ShowRecipeDetails(recipe_id) ==
    LET out == show_recipe_details(recipe_id)
    IN /\ recipe_details' = out.recipe_details
       /\ last' = [op |-> "show_recipe_details", status |-> out.status,
                   recipe_id |-> recipe_id, ingredients |-> << >>]
       /\ shopping_list' = << >>
       /\ UNCHANGED <<tables, conn, formatted>>

(* The button "Auswahl zurücksetzen" with the additional items left in     *)
(* place.                                                                  *)
ResetSelectionKeepsItems ==
    LET sel == update_selected_recipes(<< >>)
    IN /\ selected_recipes' = sel.selected_recipes
       /\ last' = [op |-> "reset_selection", status |-> sel.status,
                   recipe_id |-> 0, ingredients |-> << >>]
       /\ shopping_list' = << >>
       /\ UNCHANGED <<recipes, recipes_id_seq, ingredients, additional_ingredients>>
       /\ UNCHANGED others

(* The button "Auswahl zurücksetzen" of the recipes page (src/app.py):     *)
(* update_selected_recipes([]), then clear_additional_ingredients, each    *)
(* committed by itself, then st.rerun().  The rerun creates every checkbox *)
(* with value = (id in selected_ids), the selection just emptied, so no    *)
(* box is checked and the page writes no selection.                        *)
ResetSelection ==
    LET sel == update_selected_recipes(<< >>)
        add == clear_additional_ingredients
    IN /\ selected_recipes' = sel.selected_recipes
       /\ additional_ingredients' =
             IF sel.status = "ok" THEN add.additional_ingredients
             ELSE additional_ingredients
       /\ last' = [op |-> "reset_selection",
                   status |-> IF sel.status = "ok" THEN add.status ELSE sel.status,
                   recipe_id |-> 0, ingredients |-> << >>]
       /\ shopping_list' = << >>
       /\ UNCHANGED <<recipes, recipes_id_seq, ingredients>>
       /\ UNCHANGED others

(* One render of the recipes page without the reset button pressed: the    *)
(* filter is meal_type, the boxes of `checked` are checked, and the        *)
(* details button of recipe `clicked` is pressed (0: none is).  An         *)
(* exception of show_recipe_details ends the script before the selection   *)
(* is written.                                                             *)
ShowRecipesPage(meal_type, checked, clicked) ==
    /\ checked \subseteq RecipeIdsOf(displayed(meal_type))
    /\ clicked \in RecipeIdsOf(displayed(meal_type)) \cup {0}
    /\ LET details == IF clicked = 0
                      THEN [status |-> "ok", recipe_details |-> recipe_details]
                      ELSE show_recipe_details(clicked)
       IN /\ recipe_details' = details.recipe_details
          /\ IF details.status \notin {"ok", "Rezept nicht gefunden!"}
             THEN /\ selected_recipes' = selected_recipes
                  /\ last' = [op |-> "show_recipes_page", status |-> details.status,
                              recipe_id |-> 0, ingredients |-> << >>]
             ELSE \E out \in show_recipes_page(meal_type, checked) :
                     /\ selected_recipes' = out.selected_recipes
                     /\ last' = [op |-> "show_recipes_page", status |-> out.status,
                                 recipe_id |-> 0, ingredients |-> << >>]
    /\ shopping_list' = << >>
    /\ UNCHANGED <<recipes, recipes_id_seq, ingredients, additional_ingredients,
                   conn, formatted>>

Next ==
    \/ \E recipe_ids \in IdLists : UpdateSelectedRecipes(recipe_ids)
    \/ ClearAdditionalIngredients
    \/ GetShoppingList
    \/ \E a \in AdditionalInputs : AddAdditionalIngredient(a[1], a[2], a[3])
    \/ \E r \in RecipeInputs, ingredient_list \in IngredientLists :
          AddRecipe(r, ingredient_list)
    \/ \E recipe_id \in RecipeIds, r \in RecipeInputs, ingredient_list \in IngredientLists :
          EditRecipe(recipe_id, r, ingredient_list)
    \/ \E recipe_id \in RecipeIds : DeleteRecipe(recipe_id)

Spec == Init /\ [][Next]_vars

(* The recipe operations alone, and the operations the shopping list       *)
(* depends on.                                                             *)
NextRecipes ==
    \/ \E recipe_ids \in IdLists : UpdateSelectedRecipes(recipe_ids)
    \/ \E r \in RecipeInputs, ingredient_list \in IngredientLists :
          AddRecipe(r, ingredient_list)
    \/ \E recipe_id \in RecipeIds, r \in RecipeInputs, ingredient_list \in IngredientLists :
          EditRecipe(recipe_id, r, ingredient_list)
    \/ \E recipe_id \in RecipeIds : DeleteRecipe(recipe_id)

SpecRecipes == Init /\ [][NextRecipes]_vars

NextShopping ==
    \/ \E recipe_ids \in IdLists : UpdateSelectedRecipes(recipe_ids)
    \/ ClearAdditionalIngredients
    \/ GetShoppingList
    \/ \E a \in AdditionalInputs : AddAdditionalIngredient(a[1], a[2], a[3])
    \/ \E r \in RecipeInputs, ingredient_list \in IngredientLists :
          AddRecipe(r, ingredient_list)
    \/ \E recipe_id \in RecipeIds : DeleteRecipe(recipe_id)

SpecShopping == Init /\ [][NextShopping]_vars

(* The recipes and the page that shows the details of one.                 *)
NextDetails ==
    \/ \E r \in RecipeInputs, ingredient_list \in IngredientLists :
          AddRecipe(r, ingredient_list)
    \/ \E recipe_id \in RecipeIds : DeleteRecipe(recipe_id)
    \/ \E recipe_id \in RecipeIds : ShowRecipeDetails(recipe_id)

SpecDetails == Init /\ [][NextDetails]_vars

(* The recipes page with its checkboxes, filter and buttons, over recipes  *)
(* that are added and deleted.                                             *)
NextRecipesPage ==
    \/ \E r \in RecipeInputs : AddRecipe(r, << >>)
    \/ \E recipe_id \in RecipeIds : DeleteRecipe(recipe_id)
    \/ \E meal_type \in MealFilters, checked \in SUBSET RecipeIds,
          clicked \in RecipeIds \cup {0} :
          ShowRecipesPage(meal_type, checked, clicked)
    \/ ResetSelection

SpecRecipesPage == Init /\ [][NextRecipesPage]_vars

(* The selection, the additional items and the button that resets both.    *)
NextReset ==
    \/ \E recipe_ids \in IdLists : UpdateSelectedRecipes(recipe_ids)
    \/ GetShoppingList
    \/ \E a \in AdditionalInputs : AddAdditionalIngredient(a[1], a[2], a[3])
    \/ \E r \in RecipeInputs, ingredient_list \in IngredientLists :
          AddRecipe(r, ingredient_list)
    \/ ResetSelection

SpecReset == Init /\ [][NextReset]_vars

-----------------------------------------------------------------------------
(* The writing calls statement by statement, each on a connection of its   *)
(* own.  The server runs every transaction READ COMMITTED (PostgreSQL's    *)
(* default, create_engine sets no isolation level): a statement sees the   *)
(* rows committed before it started, waits for a row another open          *)
(* transaction has deleted or for a key another open transaction has       *)
(* inserted, and goes on when that transaction has ended.  The tables hold *)
(* the committed rows; conn[c] holds what connection c has not committed.  *)

Free(c) == conn[c].pc \in {"idle", "closed"}

(* The rows of selected_recipes an open transaction has deleted, and the   *)
(* keys it has inserted.                                                   *)
DeletedBy(c) ==
    IF conn[c].pc \in {"selection_insert", "selection_commit"}
    THEN conn[c].deleted ELSE {}

InsertedBy(c) ==
    IF conn[c].pc \in {"selection_insert", "selection_commit"}
    THEN conn[c].inserted ELSE {}

Returned(op, status) ==
    [op |-> op, status |-> status, recipe_id |-> 0, ingredients |-> << >>]

(* update_selected_recipes: the connection is taken and DELETE FROM        *)
(* selected_recipes starts on the rows committed by now.                   *)
SelectionDeleteStart(c, recipe_ids) ==
    /\ Free(c)
    /\ conn' = [conn EXCEPT ![c] =
                  [pc |-> "selection_delete", op |-> "update_selected_recipes",
                   recipe_ids |-> recipe_ids, todo |-> recipe_ids,
                   snapshot |-> selected_recipes,
                   deleted |-> {}, inserted |-> {}]]
    /\ UNCHANGED <<tables, shopping_list, last, recipe_details, formatted>>

(* The DELETE has locked and deleted the rows it saw, after every          *)
(* transaction that had deleted one of them has ended.                     *)
SelectionDeleteFinish(c) ==
    /\ conn[c].pc = "selection_delete"
    /\ \A d \in Connections \ {c} : DeletedBy(d) \cap conn[c].snapshot = {}
    /\ conn' = [conn EXCEPT ![c] =
                  [@ EXCEPT !.pc = IF conn[c].recipe_ids = << >>
                                   THEN "selection_commit"
                                   ELSE "selection_insert",
                            !.deleted = conn[c].snapshot]]
    /\ UNCHANGED <<tables, shopping_list, last, recipe_details, formatted>>

(* One INSERT of the executemany.  It waits while another open transaction *)
(* holds the key; it fails on a key that is committed and not deleted by   *)
(* this transaction, on a key this transaction has inserted already, and   *)
(* on an id without recipe; a failure rolls the transaction back.          *)
SelectionInsertRow(c) ==
    /\ conn[c].pc = "selection_insert"
    /\ LET id == Head(conn[c].todo)
           left == Tail(conn[c].todo)
       IN /\ \A d \in Connections \ {c} :
                /\ id \notin InsertedBy(d)
                /\ id \notin DeletedBy(d)
          /\ IF \/ id \in conn[c].inserted
                \/ id \in selected_recipes \ conn[c].deleted
                \/ id \notin RecipeIdsOf(recipes)
             THEN /\ conn' = [conn EXCEPT ![c] =
                                [pc |-> "closed", op |-> "update_selected_recipes",
                                 recipe_ids |-> conn[c].recipe_ids,
                                 status |-> "IntegrityError"]]
                  /\ last' = Returned("update_selected_recipes", "IntegrityError")
             ELSE /\ conn' = [conn EXCEPT ![c] =
                                [@ EXCEPT !.pc = IF left = << >>
                                                 THEN "selection_commit"
                                                 ELSE "selection_insert",
                                          !.todo = left,
                                          !.inserted = @ \cup {id}]]
                  /\ last' = last
    /\ UNCHANGED <<tables, shopping_list, recipe_details, formatted>>

(* Two transactions wait for a key of each other: the server ends one of   *)
(* them with a deadlock error.                                             *)
SelectionDeadlock(c) ==
    /\ conn[c].pc = "selection_insert"
    /\ \E d \in Connections \ {c} :
          /\ conn[d].pc = "selection_insert"
          /\ Head(conn[c].todo) \in InsertedBy(d) \cup DeletedBy(d)
          /\ Head(conn[d].todo) \in InsertedBy(c) \cup DeletedBy(c)
    /\ conn' = [conn EXCEPT ![c] =
                  [pc |-> "closed", op |-> "update_selected_recipes",
                   recipe_ids |-> conn[c].recipe_ids,
                   status |-> "OperationalError"]]
    /\ last' = Returned("update_selected_recipes", "OperationalError")
    /\ UNCHANGED <<tables, shopping_list, recipe_details, formatted>>

(* conn.commit(): the deleted rows are gone and the inserted ones are      *)
(* there for every statement that starts from now on.  A DELETE of another *)
(* connection that waited for this one skips the rows deleted here and     *)
(* does not see the rows inserted here.                                    *)
SelectionCommit(c) ==
    /\ conn[c].pc = "selection_commit"
    /\ selected_recipes' = (selected_recipes \ conn[c].deleted) \cup conn[c].inserted
    /\ conn' = [d \in Connections |->
                  IF d = c
                  THEN [pc |-> "closed", op |-> "update_selected_recipes",
                        recipe_ids |-> conn[c].recipe_ids, status |-> "ok"]
                  ELSE IF conn[d].pc = "selection_delete"
                  THEN [conn[d] EXCEPT !.snapshot = @ \ conn[c].deleted]
                  ELSE conn[d]]
    /\ last' = Returned("update_selected_recipes", "ok")
    /\ UNCHANGED <<recipes, recipes_id_seq, ingredients, additional_ingredients,
                   shopping_list, recipe_details, formatted>>

(* Recipes are added, and update_selected_recipes runs on two connections. *)
NextSelectionRace ==
    \/ \E r \in RecipeInputs : AddRecipe(r, << >>)
    \/ \E c \in Connections, recipe_ids \in IdLists : SelectionDeleteStart(c, recipe_ids)
    \/ \E c \in Connections : SelectionDeleteFinish(c)
    \/ \E c \in Connections : SelectionInsertRow(c)
    \/ \E c \in Connections : SelectionDeadlock(c)
    \/ \E c \in Connections : SelectionCommit(c)

SpecSelectionRace == Init /\ [][NextSelectionRace]_vars

(* add_recipe: INSERT INTO recipes and the first conn.commit().            *)
AddRecipeInsert(c, r, ingredient_list) ==
    /\ Free(c)
    /\ recipes_id_seq <= MaxRecipeId
    /\ LET row == [id |-> recipes_id_seq, name |-> r.name, meal_type |-> r.meal_type,
                   preparation |-> r.preparation]
       IN IF ~RecipeRowFits(row)
          THEN /\ conn' = [conn EXCEPT ![c] =
                             [pc |-> "closed", op |-> "add_recipe",
                              status |-> "DataError"]]
               /\ last' = Returned("add_recipe", "DataError")
               /\ recipes' = recipes
          ELSE /\ conn' = [conn EXCEPT ![c] =
                             [pc |-> "add_lookup", op |-> "add_recipe",
                              row_id |-> row.id, name |-> r.name,
                              ingredients |-> ingredient_list]]
               /\ last' = last
               /\ recipes' = recipes \cup {row}
    /\ recipes_id_seq' = recipes_id_seq + 1
    /\ UNCHANGED <<ingredients, selected_recipes, additional_ingredients,
                   shopping_list, recipe_details, formatted>>

(* add_recipe: the id is read back by name, the first row of an unordered  *)
(* result; without a row of that name iloc[0, 0] raises IndexError.        *)
AddRecipeLookup(c) ==
    /\ conn[c].pc = "add_lookup"
    /\ LET found == {x.id : x \in {y \in recipes : y.name = conn[c].name}}
       IN IF found = {}
          THEN /\ conn' = [conn EXCEPT ![c] =
                             [pc |-> "closed", op |-> "add_recipe",
                              status |-> "IndexError"]]
               /\ last' = Returned("add_recipe", "IndexError")
          ELSE /\ \E recipe_id \in found :
                     conn' = [conn EXCEPT ![c] =
                                [pc |-> "add_ingredients", op |-> "add_recipe",
                                 row_id |-> conn[c].row_id,
                                 recipe_id |-> recipe_id,
                                 ingredients |-> conn[c].ingredients]]
               /\ last' = last
    /\ UNCHANGED <<tables, shopping_list, recipe_details, formatted>>

(* add_recipe: the INSERTs INTO ingredients and the second conn.commit();  *)
(* the rows are there for others with the commit, all at once.             *)
AddRecipeIngredients(c) ==
    /\ conn[c].pc = "add_ingredients"
    /\ LET tx == InsertIngredients(conn[c].recipe_id, conn[c].ingredients,
                                   recipes, EmptyBag)
       IN /\ ingredients' = IF tx.status = "ok" THEN ingredients (+) tx.rows
                            ELSE ingredients
          /\ conn' = [conn EXCEPT ![c] =
                        [pc |-> "closed", op |-> "add_recipe", status |-> tx.status]]
          /\ last' = Returned("add_recipe", tx.status)
    /\ UNCHANGED <<recipes, recipes_id_seq, selected_recipes, additional_ingredients,
                   shopping_list, recipe_details, formatted>>

(* edit_recipe: the UPDATE of the recipe row and the first conn.commit().  *)
EditRecipeUpdate(c, recipe_id, r, ingredient_list) ==
    /\ Free(c)
    /\ LET Updated(x) == [id |-> x.id, name |-> r.name, meal_type |-> r.meal_type,
                          preparation |-> r.preparation]
           target == {x \in recipes : x.id = recipe_id}
       IN IF \E x \in target : ~RecipeRowFits(Updated(x))
          THEN /\ conn' = [conn EXCEPT ![c] =
                             [pc |-> "closed", op |-> "edit_recipe",
                              status |-> "DataError"]]
               /\ last' = [op |-> "edit_recipe", status |-> "DataError",
                           recipe_id |-> recipe_id, ingredients |-> ingredient_list]
               /\ recipes' = recipes
          ELSE /\ conn' = [conn EXCEPT ![c] =
                             [pc |-> "edit_delete", op |-> "edit_recipe",
                              recipe_id |-> recipe_id,
                              ingredients |-> ingredient_list]]
               /\ last' = last
               /\ recipes' = (recipes \ target) \cup {Updated(x) : x \in target}
    /\ UNCHANGED <<recipes_id_seq, ingredients, selected_recipes,
                   additional_ingredients, shopping_list, recipe_details, formatted>>

(* edit_recipe: DELETE FROM ingredients of the recipe and the second       *)
(* conn.commit().                                                          *)
EditRecipeDelete(c) ==
    /\ conn[c].pc = "edit_delete"
    /\ ingredients' = DeleteIngredientsOf(ingredients, conn[c].recipe_id)
    /\ conn' = [conn EXCEPT ![c] = [@ EXCEPT !.pc = "edit_ingredients"]]
    /\ UNCHANGED <<recipes, recipes_id_seq, selected_recipes, additional_ingredients,
                   shopping_list, last, recipe_details, formatted>>

(* edit_recipe: the INSERTs INTO ingredients and the third conn.commit().  *)
EditRecipeIngredients(c) ==
    /\ conn[c].pc = "edit_ingredients"
    /\ LET tx == InsertIngredients(conn[c].recipe_id, conn[c].ingredients,
                                   recipes, EmptyBag)
       IN /\ ingredients' = IF tx.status = "ok" THEN ingredients (+) tx.rows
                            ELSE ingredients
          /\ conn' = [conn EXCEPT ![c] =
                        [pc |-> "closed", op |-> "edit_recipe", status |-> tx.status]]
          /\ last' = [op |-> "edit_recipe", status |-> tx.status,
                      recipe_id |-> conn[c].recipe_id,
                      ingredients |-> conn[c].ingredients]
    /\ UNCHANGED <<recipes, recipes_id_seq, selected_recipes, additional_ingredients,
                   shopping_list, recipe_details, formatted>>

(* add_recipe and edit_recipe run on the first connection while the        *)
(* details page reads through the engine.  The two SELECTs of              *)
(* get_recipe_details are taken together, between two commits of the       *)
(* writer.                                                                 *)
NextPartialReads ==
    \/ \E r \in RecipeInputs, ingredient_list \in IngredientLists :
          AddRecipeInsert(1, r, ingredient_list)
    \/ AddRecipeLookup(1)
    \/ AddRecipeIngredients(1)
    \/ \E recipe_id \in RecipeIds, r \in RecipeInputs, ingredient_list \in IngredientLists :
          EditRecipeUpdate(1, recipe_id, r, ingredient_list)
    \/ EditRecipeDelete(1)
    \/ EditRecipeIngredients(1)
    \/ \E recipe_id \in RecipeIds : ShowRecipeDetails(recipe_id)

SpecPartialReads == Init /\ [][NextPartialReads]_vars

-----------------------------------------------------------------------------
(* One call of format_amount on an amount of the bounded range, of either  *)
(* type.                                                                   *)
InitFormat ==
    /\ InitDatabase
    /\ formatted \in {[amount |-> a, type |-> t, text |-> << >>]
                         : a \in 0..MaxAmount, t \in NumberTypes}

FormatAmount ==
    /\ formatted.text = << >>
    /\ formatted' = [formatted EXCEPT
                        !.text = format_amount(formatted.amount, formatted.type)]
    /\ UNCHANGED <<tables, shopping_list, last, recipe_details, conn>>

NextFormat == FormatAmount

SpecFormat == InitFormat /\ [][NextFormat]_vars

-----------------------------------------------------------------------------
(* Properties.                                                             *)

Frame == {shopping_list[i] : i \in DOMAIN shopping_list}

Key(x) == <<x.name, x.unit, x.category>>

(* C1: add_recipe is all-or-nothing: a call that fails leaves the recipes  *)
(* and ingredients tables exactly as they were before the call.            *)
C1_AddRecipeAllOrNothing ==
    [][(last'.op = "add_recipe" /\ last'.status # "ok")
          => (recipes' = recipes /\ ingredients' = ingredients)]_vars

(* C2: add_recipe with a name an existing recipe already has fails with a  *)
(* uniqueness violation and adds no recipe row and no ingredient row.      *)
C2_DuplicateNameRejected ==
    [][\A r \in RecipeInputs, ingredient_list \in IngredientLists :
          (last'.op = "add_recipe" /\ AddRecipe(r, ingredient_list)
              /\ \E x \in recipes : x.name = r.name)
             => /\ last'.status = "IntegrityError"
                /\ recipes' = recipes
                /\ ingredients' = ingredients]_vars

(* C3: edit_recipe is all-or-nothing: a call that fails leaves the         *)
(* recipe's meal type, name, preparation and its ingredient rows exactly   *)
(* as they were before the call.                                           *)
C3_EditRecipeAllOrNothing ==
    [][(last'.op = "edit_recipe" /\ last'.status # "ok")
          => (recipes' = recipes /\ ingredients' = ingredients)]_vars

(* C4: update_selected_recipes is atomic: when the insert of the new ids   *)
(* fails, the persisted selection is exactly what it was before the call.  *)
C4_ReplaceSelectionAtomic ==
    [][(last'.op = "update_selected_recipes" /\ last'.status # "ok")
          => selected_recipes' = selected_recipes]_vars

(* A failed update_selected_recipes with a non-empty selection persisted.  *)
C4_Witness ==
    /\ last.op = "update_selected_recipes"
    /\ last.status = "IntegrityError"
    /\ selected_recipes # {}

(* C5: after delete_recipe(id) no recipe row, no ingredient row and no     *)
(* selection row with that id exists; the rows of other recipes and the    *)
(* additional items are unchanged.                                         *)
C5_DeleteRemovesAllRows ==
    [][last'.op = "delete_recipe"
          => LET id == last'.recipe_id
             IN /\ id \notin RecipeIdsOf(recipes')
                /\ \A r \in BagToSet(ingredients') : r.recipe_id # id
                /\ id \notin selected_recipes'
                /\ recipes' = {r \in recipes : r.id # id}
                /\ \A r \in BagToSet(ingredients) \cup BagToSet(ingredients') :
                      r.recipe_id # id
                         => CopiesIn(r, ingredients') = CopiesIn(r, ingredients)
                /\ selected_recipes' \ {id} = selected_recipes \ {id}
                /\ additional_ingredients' = additional_ingredients]_vars

(* delete_recipe has returned for an id the sequence had handed out, and   *)
(* another recipe, with its ingredients and its selection row, and the     *)
(* additional items are still there.                                       *)
C5_Witness ==
    /\ last.op = "delete_recipe"
    /\ last.recipe_id < recipes_id_seq
    /\ \E r \in recipes :
          /\ r.id \in selected_recipes
          /\ \E i \in BagToSet(ingredients) : i.recipe_id = r.id
    /\ additional_ingredients # EmptyBag

(* C10: after a successful edit_recipe(id, ..., ingredients) the           *)
(* ingredient rows of id are exactly the supplied list, and the rows of    *)
(* every other recipe are unchanged.                                       *)
C10_EditReplacesIngredients ==
    [][(last'.op = "edit_recipe" /\ last'.status = "ok")
          => LET id == last'.recipe_id
                 ingredient_list == last'.ingredients
             IN \A row \in BagToSet(ingredients) \cup BagToSet(ingredients')
                           \cup {IngredientRow(id, ingredient_list[i])
                                    : i \in DOMAIN ingredient_list} :
                   IF row.recipe_id = id
                   THEN CopiesIn(row, ingredients') =
                           Cardinality({i \in DOMAIN ingredient_list :
                                           IngredientRow(id, ingredient_list[i]) = row})
                   ELSE CopiesIn(row, ingredients') = CopiesIn(row, ingredients)]_vars

(* A successful edit_recipe has replaced the rows of one recipe by the     *)
(* one-element list it was given, next to a recipe with rows of its own.   *)
C10_Witness ==
    /\ last.op = "edit_recipe"
    /\ last.status = "ok"
    /\ last.ingredients = <<Milch>>
    /\ last.recipe_id \in RecipeIdsOf(recipes)
    /\ \E i \in BagToSet(ingredients) : i.recipe_id # last.recipe_id

(* C6: the recipe-derived part of the shopping list has exactly one row    *)
(* per (name, unit, category) occurring among the ingredients of selected  *)
(* recipes, with the sum of their amounts; ingredients of recipes that are *)
(* not selected contribute nothing.                                        *)
C6_SelectedIngredientsSummed ==
    last.op = "get_shopping_list" =>
        LET joined == {r \in BagToSet(ingredients) : r.recipe_id \in selected_recipes}
            Total(k) == SumAmount({x \in joined : Key(x) = k}, ingredients)
            IsAdditional(x) ==
                /\ x.category = "Sonstiges"
                /\ x.unit = "Stk"
                /\ \E a \in BagToSet(additional_ingredients) :
                      /\ a.name = x.name
                      /\ x.total_amount =
                            Scale * CountRows({b \in BagToSet(additional_ingredients)
                                                  : b.name = a.name},
                                              additional_ingredients)
        IN /\ \A r \in joined :
                 Cardinality({i \in DOMAIN shopping_list :
                                 /\ Key(shopping_list[i]) = Key(r)
                                 /\ shopping_list[i].total_amount = Total(Key(r))}) = 1
           /\ \A x \in Frame :
                 ~IsAdditional(x) =>
                     /\ \E r \in joined : Key(r) = Key(x)
                     /\ x.total_amount = Total(Key(x))

(* get_shopping_list has returned a row that sums two ingredient rows of   *)
(* selected recipes.                                                       *)
C6_Witness ==
    /\ last.op = "get_shopping_list"
    /\ additional_ingredients = EmptyBag
    /\ selected_recipes # {}
    /\ \E x \in Frame : x.name = "Milch" /\ x.total_amount = 200

CategoryIndex(c) == CHOOSE i \in DOMAIN CATEGORIES : CATEGORIES[i] = c

(* C7 as stated: the returned sequence is ordered by category in the order *)
(* of the fixed vocabulary CATEGORIES, and by name within a category.      *)
C7_VocabularyOrder ==
    last.op = "get_shopping_list" =>
        \A i, j \in DOMAIN shopping_list :
            i < j =>
                \/ CategoryIndex(shopping_list[i].category)
                      < CategoryIndex(shopping_list[j].category)
                \/ /\ shopping_list[i].category = shopping_list[j].category
                   /\ StrLeq(shopping_list[i].name, shopping_list[j].name)

(* C7 as amended: the returned sequence is ordered by category as a string *)
(* (code point order), and by name as a string within a category.          *)
C7_StringOrder ==
    last.op = "get_shopping_list" =>
        \A i, j \in DOMAIN shopping_list :
            i < j =>
                \/ SeqLess(CodePoints[shopping_list[i].category],
                           CodePoints[shopping_list[j].category])
                \/ /\ shopping_list[i].category = shopping_list[j].category
                   /\ ~SeqLess(CodePoints[shopping_list[j].name],
                               CodePoints[shopping_list[i].name])

(* get_shopping_list has returned rows of two categories and two names     *)
(* within one category.                                                    *)
C7_Witness ==
    /\ last.op = "get_shopping_list"
    /\ \E i, j \in DOMAIN shopping_list :
          /\ i < j
          /\ shopping_list[i].category = "Sonstiges"
          /\ shopping_list[j].category = "Tiefkühl"
    /\ \E i, j \in DOMAIN shopping_list :
          /\ i < j
          /\ shopping_list[i].category = shopping_list[j].category
          /\ shopping_list[i].name # shopping_list[j].name

(* C8: the result has as many rows as there are ingredient groups of       *)
(* selected recipes plus distinct additional-item names, also when a row   *)
(* of one part equals a row of the other.                                  *)
C8_NoDeduplication ==
    last.op = "get_shopping_list" =>
        Len(shopping_list) =
            Cardinality({Key(r) : r \in {x \in BagToSet(ingredients)
                                            : x.recipe_id \in selected_recipes}})
            + Cardinality({a.name : a \in BagToSet(additional_ingredients)})

(* C9: every add_additional_ingredient appends one row, only               *)
(* clear_additional_ingredients removes rows, and the shopping list has    *)
(* each additional-item name once with category Sonstiges, unit Stk and    *)
(* the number of rows of that name as amount.                              *)
C9_AdditionalItemsCounted ==
    /\ [](last.op = "get_shopping_list" =>
             \A a \in BagToSet(additional_ingredients) :
                 Cardinality({i \in DOMAIN shopping_list :
                     shopping_list[i] =
                        [name |-> a.name,
                         category |-> "Sonstiges",
                         total_amount |->
                            Scale * CountRows({b \in BagToSet(additional_ingredients)
                                                  : b.name = a.name},
                                              additional_ingredients),
                         unit |-> "Stk"]}) = 1)
    /\ [][/\ last'.op = "add_additional_ingredient" =>
                 /\ BagCardinality(additional_ingredients')
                       = BagCardinality(additional_ingredients) + 1
                 /\ additional_ingredients \sqsubseteq additional_ingredients'
          /\ last'.op = "clear_additional_ingredients" =>
                 additional_ingredients' = EmptyBag
          /\ last'.op \notin {"add_additional_ingredient", "clear_additional_ingredients"} =>
                 additional_ingredients' = additional_ingredients]_vars

(* get_shopping_list has returned Apfel with amount 2 after two calls      *)
(* add_additional_ingredient("apfel", 2.00).                               *)
C9_Witness ==
    /\ last.op = "get_shopping_list"
    /\ BagCardinality(additional_ingredients) = 2
    /\ \E x \in Frame : x.name = "Apfel" /\ x.total_amount = 200

(* C11: edit_recipe with a name that a different existing recipe already   *)
(* has fails with a uniqueness violation and changes nothing, so that no   *)
(* two recipes ever share a name.                                          *)
C11_EditKeepsNamesUnique ==
    [][\A r \in RecipeInputs :
          (/\ last'.op = "edit_recipe"
           /\ EditRecipe(last'.recipe_id, r, last'.ingredients)
           /\ last'.recipe_id \in RecipeIdsOf(recipes)
           /\ \E x \in recipes : x.id # last'.recipe_id /\ x.name = r.name)
             => /\ last'.status = "IntegrityError"
                /\ recipes' = recipes
                /\ ingredients' = ingredients
                /\ \A x, y \in recipes' :
                      (x.id = last'.recipe_id /\ x.name = y.name) => x = y]_vars

(* C12: edit_recipe with an id that no recipe has fails, for every         *)
(* ingredient list including the empty one, and leaves recipes,            *)
(* ingredients and the selection unchanged.                                *)
C12_EditMissingIdFails ==
    [][(last'.op = "edit_recipe" /\ last'.recipe_id \notin RecipeIdsOf(recipes))
          => /\ last'.status \notin {"ok"}
             /\ recipes' = recipes
             /\ ingredients' = ingredients
             /\ selected_recipes' = selected_recipes]_vars

(* C13: in every reachable state every ingredient row references an        *)
(* existing recipe and every selection row references an existing recipe.  *)
C13_ReferencesLiveRecipes ==
    /\ \A i \in BagToSet(ingredients) : i.recipe_id \in RecipeIdsOf(recipes)
    /\ \A id \in selected_recipes : id \in RecipeIdsOf(recipes)

(* A recipe that had been handed an id is gone after delete_recipe, while  *)
(* ingredient rows and a selection row of another recipe are left.         *)
C13_Witness ==
    /\ last.op = "delete_recipe"
    /\ last.recipe_id < recipes_id_seq
    /\ last.recipe_id \notin RecipeIdsOf(recipes)
    /\ ingredients # EmptyBag
    /\ selected_recipes # {}

(* C16: delete_recipe is idempotent: on an id no recipe has it raises no   *)
(* error and leaves every table unchanged, and a second delete_recipe(id)  *)
(* right after the first changes nothing.                                  *)
C16_DeleteIdempotent ==
    /\ [][(last'.op = "delete_recipe" /\ last'.recipe_id \notin RecipeIdsOf(recipes))
             => /\ last'.status = "ok"
                /\ tables' = tables]_vars
    /\ [](last.op = "delete_recipe"
             => LET again == delete_recipe(last.recipe_id)
                IN /\ again.status = "ok"
                   /\ again.recipes = recipes
                   /\ again.ingredients = ingredients
                   /\ again.selected_recipes = selected_recipes)

(* delete_recipe has returned for an id the sequence has not handed out    *)
(* yet, with rows in all four tables.                                      *)
C16_Witness ==
    /\ last.op = "delete_recipe"
    /\ last.status = "ok"
    /\ last.recipe_id >= recipes_id_seq
    /\ recipes # {}
    /\ ingredients # EmptyBag
    /\ selected_recipes # {}
    /\ additional_ingredients # EmptyBag

(* C20: after a successful update_selected_recipes(ids) the selection is   *)
(* exactly the set of the given ids whatever it was before; with ids = []  *)
(* it is empty, and get_shopping_list then returns an empty sequence when  *)
(* there are no additional items.                                          *)
C20_SelectionIsGivenIds ==
    /\ [][(last'.op = "update_selected_recipes" /\ last'.status = "ok")
             => \A recipe_ids \in IdLists :
                   UpdateSelectedRecipes(recipe_ids)
                      => selected_recipes' = {recipe_ids[i] : i \in DOMAIN recipe_ids}]_vars
    /\ []((/\ last.op = "update_selected_recipes"
           /\ last.status = "ok"
           /\ selected_recipes = {}
           /\ additional_ingredients = EmptyBag)
             => get_shopping_list = {<< >>})
    /\ []((/\ last.op = "get_shopping_list"
           /\ selected_recipes = {}
           /\ additional_ingredients = EmptyBag)
             => shopping_list = << >>)

(* update_selected_recipes([]) has emptied the selection while recipes     *)
(* with ingredients exist and there are no additional items.               *)
C20_Witness ==
    /\ last.op = "update_selected_recipes"
    /\ last.status = "ok"
    /\ selected_recipes = {}
    /\ ingredients # EmptyBag
    /\ additional_ingredients = EmptyBag
    /\ get_shopping_list = {<< >>}

(* The digits a text has after its decimal point.                          *)
DigitsAfterPoint(text) ==
    IF \E i \in DOMAIN text : text[i] = "."
    THEN Len(text) - (CHOOSE i \in DOMAIN text : text[i] = ".")
    ELSE 0

(* C17: format_amount returns the plain integer when the fractional part   *)
(* is zero and otherwise the value rounded to exactly one decimal digit,   *)
(* the same text for a float and a Decimal of equal value, and never more  *)
(* than one digit after the decimal point.                                 *)
C17_OneDecimalBothTypes ==
    formatted.text # << >> =>
        LET amount == formatted.amount
            text == formatted.text
        IN /\ amount % Scale = 0 => text = str_int(amount \div Scale)
           /\ amount % Scale # 0 =>
                 \E tenths \in {amount \div 10, amount \div 10 + 1} :
                    /\ 10 * tenths - amount \in -5..5
                    /\ text = str_int(tenths \div 10) \o <<".">>
                                 \o <<Digit[(tenths % 10) + 1]>>
           /\ \A type \in NumberTypes : text = format_amount(amount, type)
           /\ DigitsAfterPoint(text) <= 1

(* C18: get_recipe_details(id) returns the recipe and exactly its          *)
(* ingredient rows when a recipe has the id; when none has, the caller     *)
(* gets a not-found outcome and reports that the recipe was not found.     *)
C18_DetailsOrNotFound ==
    last.op = "show_recipe_details" =>
        LET id == last.recipe_id
        IN IF id \in RecipeIdsOf(recipes)
           THEN /\ last.status = "ok"
                /\ recipe_details.recipe = {r \in recipes : r.id = id}
                /\ \A row \in BagToSet(ingredients)
                              \cup BagToSet(recipe_details.ingredients) :
                      CopiesIn(row, recipe_details.ingredients) =
                         IF row.recipe_id = id THEN CopiesIn(row, ingredients) ELSE 0
           ELSE last.status = "Rezept nicht gefunden!"

C14_LastWriterWins ==
    (\A c \in Connections :
        /\ conn[c].pc = "closed"
        /\ conn[c].op = "update_selected_recipes"
        /\ conn[c].status = "ok")
       => \E c \in Connections :
             selected_recipes =
                {conn[c].recipe_ids[i] : i \in DOMAIN conn[c].recipe_ids}

(* The ingredient rows a call writes for the list it was given.            *)
SuppliedRows(recipe_id, ingredient_list) ==
    {IngredientRow(recipe_id, ingredient_list[i]) : i \in DOMAIN ingredient_list}

(* C15: a reader that runs between the steps of an add_recipe or           *)
(* edit_recipe never sees the recipe row of that add_recipe without the    *)
(* ingredients of the call, nor the recipe fields of that edit_recipe with *)
(* an ingredient set other than the one of the call.                       *)
C15_NoPartialState ==
    [][(/\ last'.op = "show_recipe_details"
        /\ last'.status = "ok"
        /\ conn' = conn)
          => \A c \in Connections :
                LET id == last'.recipe_id
                    seen == recipe_details'.ingredients
                IN /\ (/\ conn[c].pc \in {"add_lookup", "add_ingredients"}
                       /\ conn[c].row_id = id)
                         => \A row \in SuppliedRows(id, conn[c].ingredients) :
                               CopiesIn(row, seen) >= 1
                   /\ (/\ conn[c].pc \in {"edit_delete", "edit_ingredients"}
                       /\ conn[c].recipe_id = id)
                         => BagToSet(seen) = SuppliedRows(id, conn[c].ingredients)]_vars


(* C21: every ingredient row inserted by an add_recipe call references the *)
(* recipe row inserted by that same call, also when another recipe has the *)
(* same name.                                                              *)
C21_IngredientsOfOwnRecipe ==
    [][last'.op = "add_recipe"
          => \A row \in BagToSet(ingredients') :
                CopiesIn(row, ingredients') > CopiesIn(row, ingredients)
                   => row.recipe_id = recipes_id_seq]_vars

(* C22: a render of the recipes page writes the selection only when a box  *)
(* is checked: with checked boxes the selection becomes exactly the        *)
(* checked ids, none of a recipe the filter hides, and with no box checked *)
(* the selection is left as it was.                                        *)
C22_PageWritesCheckedOnly ==
    [][last'.op = "show_recipes_page"
          => /\ <<recipes, recipes_id_seq, ingredients, additional_ingredients>>'
                   = <<recipes, recipes_id_seq, ingredients, additional_ingredients>>
             /\ \A meal_type \in MealFilters, checked \in SUBSET RecipeIds,
                   clicked \in RecipeIds \cup {0} :
                   ShowRecipesPage(meal_type, checked, clicked)
                      => /\ last'.status = "ok"
                         /\ checked = {} => selected_recipes' = selected_recipes
                         /\ checked # {} =>
                               /\ selected_recipes' = checked
                               /\ \A r \in recipes :
                                     (meal_type # "Alle" /\ r.meal_type # meal_type)
                                        => r.id \notin selected_recipes']_vars

(* The page has been rendered and the selection holds one of two recipes   *)
(* of different meal types.                                                *)
C22_Witness ==
    /\ last.op = "show_recipes_page"
    /\ last.status = "ok"
    /\ \E x, y \in recipes :
          /\ x.meal_type # y.meal_type
          /\ selected_recipes = {x.id}
====
